---- MODULE Spec2Model ----
(***************************************************************************)
(* A model of src/snake.rs: the Snake struct (direction, body, tail) and   *)
(* its methods new, head_position, move_forward, head_direction,           *)
(* next_head, restore_tail and overlap_tail.                               *)
(*                                                                         *)
(* Option<T> is modelled as a sequence of length at most one: <<>> is      *)
(* None and <<v>> is Some(v).  A Block is a record [x, y].  The body, a    *)
(* LinkedList<Block>, is a sequence with the front at index 1.             *)
(* Coordinates are i32 in the source; the model keeps them inside a small  *)
(* grid (MaxX, MaxY) by guarding the calls, far away from i32 overflow.      *)
(* op, arg, ret, pre and advanced are history variables: the last call,    *)
(* its argument, its result, the snake before it, and whether move_forward *)
(* has been called.                                                        *)
(***************************************************************************)
EXTENDS Integers, Sequences, FiniteSets, TLC

VARIABLES direction, body, tail, panicked, op, arg, ret, pre, advanced

vars == <<direction, body, tail, panicked, op, arg, ret, pre, advanced>>

\* ---- bounds ----
MaxX == 2
MaxY == 1
MaxLen == 5
PureMaxLen == 2

CoordX == 0..MaxX
CoordY == 0..MaxY

\* ---- data types ----
Direction == {"Up", "Down", "Left", "Right"}

None == <<>>
Some(v) == <<v>>
OptDirection == {None} \cup {Some(d) : d \in Direction}

Block(x, y) == [x |-> x, y |-> y]

InGrid(x, y) == x \in CoordX /\ y \in CoordY

opposite(d) ==
    CASE d = "Up" -> "Down"
      [] d = "Down" -> "Up"
      [] d = "Left" -> "Right"
      [] d = "Right" -> "Left"

\* ---- pure parts of the methods ----

new_tail_first(x, y) ==
    [direction |-> "Right",
     body |-> <<Block(x, y), Block(x + 1, y), Block(x + 2, y)>>,
     tail |-> None]

\* Snake::new
new(x, y) ==
    [direction |-> "Right",
     body |-> <<Block(x + 2, y), Block(x + 1, y), Block(x, y)>>,
     tail |-> None]

\* body.front().unwrap() and the pair built from it (non-empty body)
head_position_of(b) == <<b[1].x, b[1].y>>

set_direction_filtered(cur, dir) ==
    IF dir = None \/ dir[1] = opposite(cur) THEN cur ELSE dir[1]

set_direction_flip(cur, dir) == IF dir = None THEN opposite(cur) ELSE dir[1]

\* "if let Some(d) = dir { self.direction = d }"
set_direction(cur, dir) == IF dir = None THEN cur ELSE dir[1]

new_block_jump(d, last_x, last_y) ==
    CASE d = "Up" -> Block(last_x, last_y - 1)
      [] d = "Down" -> Block(last_x, last_y + 1)
      [] d = "Left" -> Block(last_x - 1, last_y)
      [] d = "Right" -> Block(last_x + 2, last_y)

new_block_swapped(d, last_x, last_y) ==
    CASE d = "Up" -> Block(last_x, last_y + 1)
      [] d = "Down" -> Block(last_x, last_y - 1)
      [] d = "Left" -> Block(last_x - 1, last_y)
      [] d = "Right" -> Block(last_x + 1, last_y)

\* the match of move_forward that builds new_block
new_block(d, last_x, last_y) ==
    CASE d = "Up" -> Block(last_x, last_y - 1)
      [] d = "Down" -> Block(last_x, last_y + 1)
      [] d = "Left" -> Block(last_x - 1, last_y)
      [] d = "Right" -> Block(last_x + 1, last_y)

\* push_front
push_front(b, blk) == <<blk>> \o b

pop_back_none(b) == b

pop_back_twice(b) == SubSeq(b, 1, Len(b) - 2)

\* pop_back: the list without its last element
pop_back(b) == SubSeq(b, 1, Len(b) - 1)

back_first(b) == b[1]

\* the element pop_back returns
back(b) == b[Len(b)]

next_head_of_current(b, cur, dir) ==
    LET head_x == head_position_of(b)[1]
        head_y == head_position_of(b)[2]
    IN CASE cur = "Up" -> <<head_x, head_y - 1>>
         [] cur = "Down" -> <<head_x, head_y + 1>>
         [] cur = "Left" -> <<head_x - 1, head_y>>
         [] cur = "Right" -> <<head_x + 1, head_y>>

\* the value of next_head on a non-empty body
next_head_of(b, cur, dir) ==
    LET head_x == head_position_of(b)[1]
        head_y == head_position_of(b)[2]
        moving_dir == IF dir = None THEN cur ELSE dir[1]
    IN CASE moving_dir = "Up" -> <<head_x, head_y - 1>>
         [] moving_dir = "Down" -> <<head_x, head_y + 1>>
         [] moving_dir = "Left" -> <<head_x - 1, head_y>>
         [] moving_dir = "Right" -> <<head_x + 1, head_y>>

RECURSIVE overlap_loop_short(_, _, _, _, _)
overlap_loop_short(b, i, ch, x, y) ==
    IF i > Len(b) THEN FALSE
    ELSE IF x = b[i].x /\ y = b[i].y THEN TRUE
    ELSE IF ch + 1 = Len(b) - 2 THEN FALSE
    ELSE overlap_loop_short(b, i + 1, ch + 1, x, y)

RECURSIVE overlap_loop_all(_, _, _, _, _)
overlap_loop_all(b, i, ch, x, y) ==
    IF i > Len(b) THEN FALSE
    ELSE IF x = b[i].x /\ y = b[i].y THEN TRUE
    ELSE IF ch + 1 = Len(b) THEN FALSE
    ELSE overlap_loop_all(b, i + 1, ch + 1, x, y)

\* the loop of overlap_tail: i is the position of the iterator, ch the
\* counter before this iteration
RECURSIVE overlap_loop(_, _, _, _, _)
overlap_loop(b, i, ch, x, y) ==
    IF i > Len(b) THEN FALSE
    ELSE IF x = b[i].x /\ y = b[i].y THEN TRUE
    ELSE IF ch + 1 = Len(b) - 1 THEN FALSE
    ELSE overlap_loop(b, i + 1, ch + 1, x, y)

overlap_tail_of(b, x, y) == overlap_loop(b, 1, 0, x, y)

\* ---- state ----
snapshot == [direction |-> direction, body |-> body, tail |-> tail]

Init ==
    /\ \E x \in CoordX, y \in CoordY :
         /\ InGrid(x + 2, y)
         /\ direction = new(x, y).direction
         /\ body = new(x, y).body
         /\ tail = new(x, y).tail
         /\ arg = <<x, y>>
    /\ panicked = FALSE
    /\ op = "new"
    /\ ret = None
    /\ pre = [direction |-> "Right", body |-> <<>>, tail |-> None]
    /\ advanced = FALSE

\* ---- the methods as actions ----

head_position ==
    /\ ~panicked
    /\ op' = "head_position"
    /\ arg' = None
    /\ pre' = snapshot
    /\ IF body = <<>>
       THEN panicked' = TRUE /\ ret' = None
       ELSE panicked' = FALSE /\ ret' = head_position_of(body)
    /\ UNCHANGED <<direction, body, tail, advanced>>

move_forward_keeps_tail(dir) ==
    /\ ~panicked
    /\ body # <<>>
    /\ LET h == head_position_of(body)
           nb == new_block(set_direction(direction, dir), h[1], h[2])
       IN /\ InGrid(nb.x, nb.y)
          /\ body' = pop_back(push_front(body, nb))
          /\ tail' = IF tail = None THEN Some(back(body)) ELSE tail
    /\ op' = "move_forward"
    /\ arg' = dir
    /\ ret' = None
    /\ pre' = snapshot
    /\ advanced' = TRUE
    /\ direction' = set_direction(direction, dir)
    /\ UNCHANGED panicked

move_forward(dir) ==
    /\ ~panicked
    /\ body # <<>> =>
         LET h == head_position_of(body)
             nb == new_block(set_direction(direction, dir), h[1], h[2])
         IN InGrid(nb.x, nb.y)
    /\ op' = "move_forward"
    /\ arg' = dir
    /\ ret' = None
    /\ pre' = snapshot
    /\ advanced' = TRUE
    /\ direction' = set_direction(direction, dir)
    /\ IF body = <<>>
       THEN panicked' = TRUE /\ UNCHANGED <<body, tail>>
       ELSE LET last == head_position_of(body)
                pushed == push_front(body, new_block(direction', last[1], last[2]))
            IN /\ body' = pop_back(pushed)
               /\ tail' = Some(back(pushed))
               /\ panicked' = FALSE

head_direction ==
    /\ ~panicked
    /\ op' = "head_direction"
    /\ arg' = None
    /\ ret' = direction
    /\ pre' = snapshot
    /\ UNCHANGED <<direction, body, tail, panicked, advanced>>

next_head_stores(dir) ==
    /\ ~panicked
    /\ body # <<>>
    /\ op' = "next_head"
    /\ arg' = dir
    /\ pre' = snapshot
    /\ ret' = next_head_of(body, direction, dir)
    /\ direction' = set_direction(direction, dir)
    /\ UNCHANGED <<body, tail, panicked, advanced>>

next_head(dir) ==
    /\ ~panicked
    /\ op' = "next_head"
    /\ arg' = dir
    /\ pre' = snapshot
    /\ IF body = <<>>
       THEN panicked' = TRUE /\ ret' = None
       ELSE panicked' = FALSE /\ ret' = next_head_of(body, direction, dir)
    /\ UNCHANGED <<direction, body, tail, advanced>>

restore_tail_or_back ==
    /\ ~panicked
    /\ Len(body) < MaxLen
    /\ op' = "restore_tail"
    /\ arg' = None
    /\ ret' = None
    /\ pre' = snapshot
    /\ body' = Append(body, IF tail = None THEN back(body) ELSE tail[1])
    /\ UNCHANGED <<direction, tail, panicked, advanced>>

restore_tail_take ==
    /\ ~panicked
    /\ Len(body) < MaxLen
    /\ op' = "restore_tail"
    /\ arg' = None
    /\ ret' = None
    /\ pre' = snapshot
    /\ IF tail = None
       THEN panicked' = TRUE /\ UNCHANGED body
       ELSE panicked' = FALSE /\ body' = Append(body, tail[1])
    /\ tail' = None
    /\ UNCHANGED <<direction, advanced>>

restore_tail_front ==
    /\ ~panicked
    /\ Len(body) < MaxLen
    /\ op' = "restore_tail"
    /\ arg' = None
    /\ ret' = None
    /\ pre' = snapshot
    /\ IF tail = None
       THEN panicked' = TRUE /\ UNCHANGED body
       ELSE panicked' = FALSE /\ body' = push_front(body, tail[1])
    /\ UNCHANGED <<direction, tail, advanced>>

restore_tail ==
    /\ ~panicked
    /\ Len(body) < MaxLen
    /\ op' = "restore_tail"
    /\ arg' = None
    /\ ret' = None
    /\ pre' = snapshot
    /\ IF tail = None
       THEN panicked' = TRUE /\ UNCHANGED body
       ELSE panicked' = FALSE /\ body' = Append(body, tail[1])
    /\ UNCHANGED <<direction, tail, advanced>>

overlap_tail(x, y) ==
    /\ ~panicked
    /\ op' = "overlap_tail"
    /\ arg' = <<x, y>>
    /\ ret' = overlap_tail_of(body, x, y)
    /\ pre' = snapshot
    /\ UNCHANGED <<direction, body, tail, panicked, advanced>>

Next ==
    \/ head_position
    \/ \E dir \in OptDirection : move_forward(dir)
    \/ head_direction
    \/ \E dir \in OptDirection : next_head(dir)
    \/ restore_tail
    \/ \E x \in CoordX, y \in CoordY : overlap_tail(x, y)

Spec == Init /\ [][Next]_vars

\* ---- the game loop's tick ----

\* a move_forward the caller commits only when overlap_tail of the cell
\* next_head predicts is false
guarded_advance(dir) ==
    /\ body # <<>>
    /\ LET nh == next_head_of(body, direction, dir)
       IN ~overlap_tail_of(body, nh[1], nh[2])
    /\ move_forward(dir)

\* a restore_tail in the tick of the move_forward just made
grow ==
    /\ op = "move_forward"
    /\ restore_tail

NextTick ==
    \/ \E dir \in OptDirection : guarded_advance(dir)
    \/ grow

SpecTick == Init /\ [][NextTick]_vars

NextGrow ==
    \/ \E dir \in OptDirection : move_forward(dir)
    \/ grow

SpecGrow == Init /\ [][NextGrow]_vars

\* ---- overlap_tail on arbitrary short bodies ----
Blocks == {Block(x, y) : x \in CoordX, y \in CoordY}

BodiesUpTo(n) == UNION {[1..k -> Blocks] : k \in 1..n}

InitPure ==
    /\ body \in BodiesUpTo(PureMaxLen)
    /\ direction = "Right"
    /\ tail = None
    /\ panicked = FALSE
    /\ op = "given"
    /\ arg = None
    /\ ret = None
    /\ pre = [direction |-> "Right", body |-> <<>>, tail |-> None]
    /\ advanced = FALSE

NextPure == \E x \in CoordX, y \in CoordY : overlap_tail(x, y)

SpecPure == InitPure /\ [][NextPure]_vars

\* ---- properties ----

\* the cell one unit from (x, y) in heading d: Up y-1, Down y+1, Left x-1,
\* Right x+1
Offset(x, y, d) ==
    Block(x + (IF d = "Right" THEN 1 ELSE IF d = "Left" THEN 0 - 1 ELSE 0),
          y + (IF d = "Down" THEN 1 ELSE IF d = "Up" THEN 0 - 1 ELSE 0))

\* the heading in force once the argument of the last call is applied to
\* the heading before it
HeadingInForce == IF arg = None THEN pre.direction ELSE arg[1]

Moved == op = "move_forward"

\* C1: after every move_forward, whatever its argument and whatever calls
\* came before, the body is as long as it was before the call.
C1_AdvancePreservesLength == Moved => Len(body) = Len(pre.body)

C1_Witness ==
    /\ Moved
    /\ arg = None
    /\ Len(pre.body) = 4
    /\ Len(body) = 4

\* C2: after move_forward the body is the new head followed by the old body
\* without its last cell, the new head being the old head moved one unit in
\* the heading in force.
C2_AdvanceShiftsBody ==
    Moved =>
        body = <<Offset(pre.body[1].x, pre.body[1].y, HeadingInForce)>>
               \o SubSeq(pre.body, 1, Len(pre.body) - 1)

C2_Witness ==
    /\ Moved
    /\ arg = Some("Up")
    /\ pre.direction = "Right"
    /\ body[1].y = pre.body[1].y - 1
    /\ body[2] = pre.body[1]

\* C3: the head after move_forward(d) is the position next_head(d) gives in
\* the state before the call.
C3_NextHeadPredictsAdvance ==
    Moved => head_position_of(body) = next_head_of(pre.body, pre.direction, arg)

C3_Witness ==
    /\ Moved
    /\ arg = Some("Down")
    /\ pre.direction = "Right"
    /\ head_position_of(body) = next_head_of(pre.body, pre.direction, arg)

\* C4: a restore_tail called right after a move_forward makes the body one
\* cell longer, the cell at the back being the last cell of the body before
\* that move_forward, so that the body is the new head followed by the whole
\* body before the move.
C4_RestoreAfterAdvance ==
    [][(Moved /\ op' = "restore_tail") =>
           /\ Len(body') = Len(body) + 1
           /\ body'[Len(body')] = pre.body[Len(pre.body)]
           /\ body' = <<body[1]>> \o pre.body]_vars

C4_Witness ==
    /\ op = "restore_tail"
    /\ ~panicked
    /\ pre.tail # None
    /\ Len(body) = Len(pre.body) + 1
    /\ body[Len(body)] = pre.tail[1]

\* C5: overlap_tail(x, y) is true exactly when (x, y) is a body cell other
\* than the last cell of the sequence.
C5_OverlapExcludesTail ==
    op = "overlap_tail" =>
        ret = (\E i \in 1..(Len(body) - 1) : body[i] = Block(arg[1], arg[2]))

C5_Witness ==
    /\ op = "overlap_tail"
    /\ body[Len(body)] = Block(arg[1], arg[2])
    /\ ret = FALSE

C7_NextHeadIsPure ==
    op = "next_head" =>
        /\ body = pre.body
        /\ direction = pre.direction
        /\ tail = pre.tail
        /\ ret = <<Offset(body[1].x, body[1].y, HeadingInForce).x,
                   Offset(body[1].x, body[1].y, HeadingInForce).y>>

C7_Witness ==
    /\ op = "next_head"
    /\ arg = Some("Left")
    /\ direction = "Up"
    /\ ret = <<body[1].x - 1, body[1].y>>

\* C8: after move_forward(Some(d)) the heading is d, the opposite of the
\* previous heading included; after move_forward(None) the heading is the
\* previous one; the head has moved one unit in that heading.
C8_AdvanceSetsHeading ==
    Moved =>
        /\ direction = HeadingInForce
        /\ body[1] = Offset(pre.body[1].x, pre.body[1].y, direction)

C8_Witness ==
    /\ Moved
    /\ arg = Some("Down")
    /\ pre.direction = "Up"
    /\ direction = "Down"

\* C9 as stated: no move_forward turns the heading into its opposite.
C9_HeadingNeverReverses == Moved => direction # opposite(pre.direction)

\* C9 amended: a move_forward turns the heading into its opposite exactly
\* when it is given that opposite heading as argument.
C9_ReversalOnlyOnRequest ==
    Moved =>
        (direction = opposite(pre.direction)
            <=> arg = Some(opposite(pre.direction)))

C9_Witness ==
    /\ Moved
    /\ arg = Some("Left")
    /\ pre.direction = "Right"
    /\ direction = "Left"

\* C10: new(x, y) gives the body (x+2, y), (x+1, y), (x, y), head first,
\* heading Right, no removed tail; the head position is (x+2, y).
C10_NewState ==
    op = "new" =>
        /\ body = <<Block(arg[1] + 2, arg[2]), Block(arg[1] + 1, arg[2]),
                    Block(arg[1], arg[2])>>
        /\ direction = "Right"
        /\ tail = None
        /\ head_position_of(body) = <<arg[1] + 2, arg[2]>>

C10_Witness ==
    /\ op = "new"
    /\ arg = <<0, 1>>
    /\ body[1] = Block(2, 1)
    /\ Len(body) = 3

Restored == op = "restore_tail" /\ ~panicked

Distinct(b) == \A i, j \in 1..Len(b) : i # j => b[i] # b[j]

Manhattan(p, q) ==
    (IF p.x >= q.x THEN p.x - q.x ELSE q.x - p.x)
    + (IF p.y >= q.y THEN p.y - q.y ELSE q.y - p.y)

Connected(b) == \A i \in 1..(Len(b) - 1) : Manhattan(b[i], b[i + 1]) = 1

\* C11: a restore_tail on a snake that has never moved (no removed tail)
\* panics and appends nothing; once move_forward has been called,
\* restore_tail does not panic.
C11_RestoreNeedsAdvance ==
    op = "restore_tail" =>
        /\ ~advanced => (pre.tail = None /\ panicked /\ body = pre.body)
        /\ advanced => ~panicked

C11_Witness ==
    /\ op = "restore_tail"
    /\ ~advanced
    /\ panicked
    /\ Len(body) = 3

\* C12: the body always has at least 3 cells, no step makes it shorter, and
\* head_position, next_head and move_forward never panic on an empty body.
C12_BodyNeverShrinks ==
    /\ Len(body) >= 3
    /\ Len(body) >= Len(pre.body)
    /\ panicked => op = "restore_tail"

C12_Witness ==
    /\ op = "head_position"
    /\ ~panicked
    /\ Len(body) = 5
    /\ ret = <<body[1].x, body[1].y>>

\* C13: tail is empty exactly while move_forward has not been called; each
\* move_forward sets it to the cell it popped, nothing else changes it, and
\* restore_tail appends its current value, the cell of the latest
\* move_forward.
C13_TailIsLatestPopped ==
    /\ tail = None <=> ~advanced
    /\ Moved => tail = Some(pre.body[Len(pre.body)])
    /\ (op # "new" /\ ~Moved) => tail = pre.tail
    /\ Restored => body = Append(pre.body, tail[1])

C13_Witness ==
    /\ Restored
    /\ tail = Some(Block(1, 0))
    /\ body = <<Block(1, 1), Block(2, 1), Block(2, 0), Block(1, 0)>>

\* C14: a second restore_tail with no move_forward in between leaves the
\* body 2 cells longer than before the first one, its last two cells both
\* equal to the removed tail.
C14_DoubleRestoreDuplicates ==
    [][(Restored /\ op' = "restore_tail") =>
           /\ Len(body') = Len(pre.body) + 2
           /\ body'[Len(body')] = body'[Len(body') - 1]
           /\ body'[Len(body')] = tail[1]]_vars

C14_Witness ==
    /\ Restored
    /\ Len(pre.body) = 4
    /\ Len(body) = 5
    /\ body[5] = body[4]
    /\ body[5] = tail[1]

\* C15: only move_forward changes the heading; restore_tail keeps heading,
\* tail, head and every cell already present and appends one cell at the
\* back; head_position, head_direction and overlap_tail change nothing.
C15_FrameOfRestoreAndQueries ==
    /\ direction # pre.direction => Moved
    /\ Restored =>
           /\ direction = pre.direction
           /\ tail = pre.tail
           /\ Len(body) = Len(pre.body) + 1
           /\ SubSeq(body, 1, Len(pre.body)) = pre.body
    /\ op \in {"head_position", "head_direction", "overlap_tail"} =>
           snapshot = pre

C15_Witness ==
    /\ Restored
    /\ direction = "Down"
    /\ pre.direction = "Down"
    /\ body[1] = pre.body[1]
    /\ Len(body) = Len(pre.body) + 1

\* C16: the second body cell is always the head moved one unit against the
\* heading, so next_head of the opposite heading is that cell and
\* overlap_tail reports it.
C16_NeckBehindHead ==
    /\ body[2] = Offset(body[1].x, body[1].y, opposite(direction))
    /\ next_head_of(body, direction, Some(opposite(direction)))
           = <<body[2].x, body[2].y>>
    /\ overlap_tail_of(body, body[2].x, body[2].y)

C16_Witness ==
    /\ op = "overlap_tail"
    /\ advanced
    /\ arg = next_head_of(body, direction, Some(opposite(direction)))
    /\ arg = <<body[2].x, body[2].y>>
    /\ ret = TRUE

\* C17: a move_forward made from a body of pairwise distinct cells, when
\* overlap_tail of the predicted head was false, leaves the cells pairwise
\* distinct, the predicted head being the old tail cell included.
C17_GuardedAdvanceKeepsDistinct ==
    (/\ Moved
     /\ Distinct(pre.body)
     /\ LET nh == next_head_of(pre.body, pre.direction, arg)
        IN ~overlap_tail_of(pre.body, nh[1], nh[2]))
    => Distinct(body)

C17_Witness ==
    /\ Moved
    /\ Distinct(pre.body)
    /\ body[1] = pre.body[Len(pre.body)]
    /\ Distinct(body)

\* C18: in the tick protocol (guarded move_forward, then at most one
\* restore_tail) the body cells are pairwise distinct in every state.
C18_TickKeepsDistinct == Distinct(body)

\* C19: when every restore_tail directly follows a move_forward, any two
\* consecutive body cells are at Manhattan distance 1.
C19_BodyConnected == Connected(body)

C19_Witness ==
    /\ Restored
    /\ Len(body) = 5
    /\ direction = "Left"
    /\ Connected(body)

====
